---- MODULE Spec2Model ----
(***************************************************************************)
(* A model of the pytrader v2 data layer, src/v2/rest_api/orm.py.          *)
(*                                                                         *)
(* The file declares the mapped classes of the REST API's database: a      *)
(* stack of base classes (IDClass, TimeBaseClass, OwnedClass, TestBases,   *)
(* AddDeleteTrackClass) and the concrete tables built from them.  The      *)
(* state of the program is the content of those tables; its operations are *)
(* the writes the mapped classes admit: an INSERT applies the declared     *)
(* column defaults, an UPDATE fires the declared onupdate hooks, and every *)
(* write is subject to the declared foreign keys and choice types.         *)
(*                                                                         *)
(* The clock is datetime.datetime.now, read once per default/onupdate      *)
(* callable.  It is modelled as a counter that never runs backwards.       *)
(***************************************************************************)
EXTENDS Integers, FiniteSets, Sequences, TLC

VARIABLES
    clock,            \* the value datetime.datetime.now would return
    users,            \* table Users:          id -> row
    tasks,            \* table Tasks:          id -> row
    workers,          \* table Workers:        id -> row
    taskResults,      \* table TaskResults:    id -> row
    predictionTests,  \* table PredictionTest: id -> row
    executions,       \* task executions performed by workers: execution -> report payload
    deliveries,       \* execution -> number of times its report reached the data layer
    rowExecution,     \* TaskResults id -> the execution whose delivery wrote it
    lastOp            \* the last write attempted and how it ended

vars == <<clock, users, tasks, workers, taskResults, predictionTests,
          executions, deliveries, rowExecution, lastOp>>

(***************************************************************************)
(* Bounds of the model.                                                    *)
(***************************************************************************)
MaxClock == 3
MaxUsers == 1
MaxTasks == 1
MaxWorkers == 1
MaxTests == 1
MaxExecutions == 2
MaxDeliveries == 2

\* SQL NULL: the value of a column that has no default and was not supplied.
NULL == 0 - 1
\* The value of a Boolean column that is set.
SqlTrue == 1

Min(a, b) == IF a <= b THEN a ELSE b

UserNames == {"alice", "bob"}
Scores == {87}

(***************************************************************************)
(* IDClass: id = Column('id', Integer, primary_key=True).  An integer      *)
(* primary key is assigned by autoincrement: one more than the largest id  *)
(* the table has held.  No row is removed, so that is the row count + 1.   *)
(***************************************************************************)
NextId(table) == Cardinality(DOMAIN table) + 1

(***************************************************************************)
(* The schema's table names (__tablename__) and the rows stored under each.*)
(* A table name that is not declared holds no row.                         *)
(***************************************************************************)
TableNames == {"Users", "Workers", "OAuthAuth", "OAuthAccess", "PerformanceComparison",
               "TradeSites", "Tasks", "TaskResults", "PredictionTest"}

TableIds(name) ==
    CASE name = "Users" -> DOMAIN users
      [] name = "Tasks" -> DOMAIN tasks
      [] name = "Workers" -> DOMAIN workers
      [] name = "TaskResults" -> DOMAIN taskResults
      [] name = "PredictionTest" -> DOMAIN predictionTests
      [] OTHER -> {}

(***************************************************************************)
(* The foreign keys as the source spells them: ForeignKey('<table>.id').   *)
(***************************************************************************)
FK_Owned_user_id == "users"
FK_Audit_created_user_id == "Users"
FK_Audit_deleted_user_id == "Users"
FK_Workers_task_id == "Tasks"
FK_TaskResults_worker_id == "Workers"
FK_TaskResults_task_id == "Tasks"

\* A foreign key column accepts NULL, or the id of a row of the table it names.
FkResolves(target, value) ==
    value = NULL \/ (target \in TableNames /\ value \in TableIds(target))


(***************************************************************************)
(* TimeBaseClass.  On INSERT the two defaults are called in declaration    *)
(* order, so date_created holds the first reading of the clock (t1) and    *)
(* date_updated the second (t2).  On UPDATE the onupdate callable is       *)
(* called and its reading (now) stored in date_updated; date_created has   *)
(* no onupdate and is left alone.                                          *)
(***************************************************************************)
TimeBaseInsertSwapped(t1, t2) == [date_created |-> t2, date_updated |-> t1]

TimeBaseInsert(t1, t2) == [date_created |-> t1, date_updated |-> t2]

OnUpdateMissing(row, now) == row

OnUpdate(row, now) == [row EXCEPT !.date_updated = now]

(***************************************************************************)
(* AddDeleteTrackClass.  On INSERT with no soft-delete value supplied:     *)
(* date_deleted takes its declared default, a reading of the clock (t3);   *)
(* deleted and deleted_user_id have no default and stay NULL.              *)
(***************************************************************************)
AuditInsert(t3, creator) ==
    [date_deleted |-> t3, deleted |-> NULL,
     created_user_id |-> creator, deleted_user_id |-> NULL]

\* OwnedClass: user_id.
OwnedInsert(owner) == [user_id |-> owner]

\* The readings of the clock an INSERT can take after a reading t.
LaterReads(t) == t .. Min(t + 1, MaxClock)

\* The last write attempted.
\* The last write attempted: the operation, its table, the row, how it ended,
\* the acting user (softDelete), the references it carried, each as
\* <<column, entity referred to, value>>, and the choice values it carried,
\* each as <<column, value>>.
NoOp == [op |-> "none", table |-> "none", id |-> NULL, result |-> "none",
         arg |-> NULL, refs |-> {}, choices |-> {}]

Op(o, t, i, r, a) ==
    [op |-> o, table |-> t, id |-> i, result |-> r, arg |-> a, refs |-> {}, choices |-> {}]

OpRefs(o, t, i, r, rs) ==
    [op |-> o, table |-> t, id |-> i, result |-> r, arg |-> NULL, refs |-> rs,
     choices |-> {}]

OpChoices(o, t, i, r, cs) ==
    [op |-> o, table |-> t, id |-> i, result |-> r, arg |-> NULL, refs |-> {},
     choices |-> cs]

UsersRest == <<tasks, workers, taskResults, predictionTests,
               executions, deliveries, rowExecution>>

(***************************************************************************)
(* The clock advances.                                                     *)
(***************************************************************************)
Tick ==
    /\ clock < MaxClock
    /\ clock' = clock + 1
    /\ UNCHANGED <<users, tasks, workers, taskResults, predictionTests,
                   executions, deliveries, rowExecution, lastOp>>

(***************************************************************************)
(* INSERT of a Users row: username supplied, created_user_id supplied or   *)
(* NULL, no soft-delete value supplied.                                    *)
(***************************************************************************)
InsertUser(name, creator) ==
    /\ Cardinality(DOMAIN users) < MaxUsers
    /\ LET id == NextId(users) IN
       IF ~FkResolves(FK_Audit_created_user_id, creator)
       THEN /\ lastOp' = OpRefs("insert", "Users", NULL, "IntegrityError",
                                {<<"created_user_id", "Users", creator>>})
            /\ UNCHANGED <<clock, users>>
       ELSE \E t2 \in LaterReads(clock) : \E t3 \in LaterReads(t2) :
              /\ users' = (id :> (TimeBaseInsert(clock, t2) @@ AuditInsert(t3, creator)
                                  @@ [username |-> name])) @@ users
              /\ clock' = t3
              /\ lastOp' = OpRefs("insert", "Users", id, "ok",
                                  {<<"created_user_id", "Users", creator>>})
    /\ UNCHANGED UsersRest

(***************************************************************************)
(* UPDATE of a business field of a Users row (username).  The schema       *)
(* declares no constraint on the soft-delete state of the row.             *)
(***************************************************************************)
UpdateRowReplaced(row, name, now) ==
    TimeBaseInsert(row.date_created, now) @@ AuditInsert(now, row.created_user_id)
    @@ [username |-> name]

UpdateRow(row, name, now) == OnUpdate([row EXCEPT !.username = name], now)

UpdateUser(id, name) ==
    /\ id \in DOMAIN users
    /\ users[id].username # name
    /\ users' = [users EXCEPT ![id] = UpdateRow(users[id], name, clock)]
    /\ lastOp' = Op("update", "Users", id, "ok", NULL)
    /\ UNCHANGED clock
    /\ UNCHANGED UsersRest

(***************************************************************************)
(* softDelete(entity, byUser, atTime): sets the flag, the deletion time    *)
(* and the deleting user in one UPDATE; fails with a state conflict when   *)
(* the row is already deleted.                                             *)
(***************************************************************************)
SoftDeleteRowUnguarded(row, by, now) ==
    OnUpdate([row EXCEPT !.deleted = SqlTrue, !.date_deleted = now,
                         !.deleted_user_id = by], now)

SoftDeleteRow(row, by, now) ==
    IF row.deleted = SqlTrue THEN row
    ELSE OnUpdate([row EXCEPT !.deleted = SqlTrue, !.date_deleted = now,
                              !.deleted_user_id = by], now)

SoftDeleteUser(id, by) ==
    /\ id \in DOMAIN users
    /\ by # NULL
    /\ IF users[id].deleted = SqlTrue
       THEN /\ lastOp' = Op("softDelete", "Users", id, "StateConflict", by)
            /\ users' = [users EXCEPT ![id] = SoftDeleteRow(users[id], by, clock)]
       ELSE IF ~FkResolves(FK_Audit_deleted_user_id, by)
       THEN /\ lastOp' = Op("softDelete", "Users", id, "IntegrityError", by)
            /\ UNCHANGED users
       ELSE /\ users' = [users EXCEPT ![id] = SoftDeleteRow(users[id], by, clock)]
            /\ lastOp' = Op("softDelete", "Users", id, "ok", by)
    /\ UNCHANGED clock
    /\ UNCHANGED UsersRest

UserIds == 1 .. MaxUsers

Init ==
    /\ clock = 0
    /\ users = <<>>
    /\ tasks = <<>>
    /\ workers = <<>>
    /\ taskResults = <<>>
    /\ predictionTests = <<>>
    /\ executions = <<>>
    /\ deliveries = <<>>
    /\ rowExecution = <<>>
    /\ lastOp = NoOp

NextAudit ==
    \/ Tick
    \/ \E name \in UserNames : InsertUser(name, NULL)
    \/ \E id \in UserIds : \E name \in UserNames : UpdateUser(id, name)
    \/ \E id \in UserIds : \E by \in UserIds \cup {MaxUsers + 1} : SoftDeleteUser(id, by)

SpecAudit == Init /\ [][NextAudit]_vars


(***************************************************************************)
(* Tasks(TestBases, OwnedClass) and Workers(OwnedClass).  The columns not  *)
(* supplied and without a default are NULL; tasks_complete defaults to 0.  *)
(***************************************************************************)
TasksInsert(t1, t2, owner) ==
    TimeBaseInsert(t1, t2) @@ OwnedInsert(owner) @@ [date_last_ran |-> NULL]

WorkersInsert(t1, t2, owner, task) ==
    TimeBaseInsert(t1, t2) @@ OwnedInsert(owner)
    @@ [task_id |-> task, tasks_complete |-> 0]

\* TaskResults(TestBases): the columns of a result row.
TaskResultsInsert(t1, t2, worker, task, score) ==
    TimeBaseInsert(t1, t2) @@ [worker_id |-> worker, task_id |-> task, score |-> score]

TasksRest == <<users, workers, taskResults, predictionTests,
               executions, deliveries, rowExecution>>

InsertTask(owner) ==
    /\ Cardinality(DOMAIN tasks) < MaxTasks
    /\ LET id == NextId(tasks)
           refs == {<<"user_id", "Users", owner>>} IN
       IF ~FkResolves(FK_Owned_user_id, owner)
       THEN /\ lastOp' = OpRefs("insert", "Tasks", NULL, "IntegrityError", refs)
            /\ UNCHANGED <<clock, tasks>>
       ELSE \E t2 \in LaterReads(clock) :
              /\ tasks' = (id :> TasksInsert(clock, t2, owner)) @@ tasks
              /\ clock' = t2
              /\ lastOp' = OpRefs("insert", "Tasks", id, "ok", refs)
    /\ UNCHANGED TasksRest

WorkersRest == <<users, tasks, taskResults, predictionTests,
                 executions, deliveries, rowExecution>>

InsertWorker(owner, task) ==
    /\ Cardinality(DOMAIN workers) < MaxWorkers
    /\ LET id == NextId(workers)
           refs == {<<"user_id", "Users", owner>>, <<"task_id", "Tasks", task>>} IN
       IF ~(FkResolves(FK_Owned_user_id, owner) /\ FkResolves(FK_Workers_task_id, task))
       THEN /\ lastOp' = OpRefs("insert", "Workers", NULL, "IntegrityError", refs)
            /\ UNCHANGED <<clock, workers>>
       ELSE \E t2 \in LaterReads(clock) :
              /\ workers' = (id :> WorkersInsert(clock, t2, owner, task)) @@ workers
              /\ clock' = t2
              /\ lastOp' = OpRefs("insert", "Workers", id, "ok", refs)
    /\ UNCHANGED WorkersRest

(***************************************************************************)
(* A worker executes a task and holds a report of it: the values of a      *)
(* TaskResults row.  The report carries what the table has columns for.    *)
(***************************************************************************)
Execute(e, worker, task, score) ==
    /\ e \notin DOMAIN executions
    /\ e = Cardinality(DOMAIN executions) + 1
    /\ executions' = (e :> [worker_id |-> worker, task_id |-> task, score |-> score])
                     @@ executions
    /\ deliveries' = (e :> 0) @@ deliveries
    /\ UNCHANGED <<clock, users, tasks, workers, taskResults, predictionTests,
                   rowExecution, lastOp>>

(***************************************************************************)
(* A report reaches the data layer (at least once per execution): the      *)
(* TaskResults row is inserted, Tasks.date_last_ran is set and             *)
(* Workers.tasks_complete incremented, in one transaction.                 *)
(***************************************************************************)
SubmitTaskResult(e) ==
    /\ e \in DOMAIN executions
    /\ deliveries[e] < MaxDeliveries
    /\ LET rep == executions[e]
           id == NextId(taskResults)
           refs == {<<"worker_id", "Workers", rep.worker_id>>,
                    <<"task_id", "Tasks", rep.task_id>>} IN
       IF ~(/\ FkResolves(FK_TaskResults_worker_id, rep.worker_id)
            /\ FkResolves(FK_TaskResults_task_id, rep.task_id))
       THEN /\ lastOp' = OpRefs("insert", "TaskResults", NULL, "IntegrityError", refs)
            /\ deliveries' = [deliveries EXCEPT ![e] = @ + 1]
            /\ UNCHANGED <<clock, tasks, workers, taskResults, rowExecution>>
       ELSE \E t2 \in LaterReads(clock) :
              /\ taskResults' = (id :> TaskResultsInsert(clock, t2, rep.worker_id,
                                                         rep.task_id, rep.score))
                                @@ taskResults
              /\ tasks' = [tasks EXCEPT ![rep.task_id] =
                              OnUpdate([@ EXCEPT !.date_last_ran = t2], t2)]
              /\ workers' = [workers EXCEPT ![rep.worker_id] =
                                OnUpdate([@ EXCEPT !.tasks_complete = @ + 1], t2)]
              /\ rowExecution' = (id :> e) @@ rowExecution
              /\ deliveries' = [deliveries EXCEPT ![e] = @ + 1]
              /\ clock' = t2
              /\ lastOp' = OpRefs("insert", "TaskResults", id, "ok", refs)
    /\ UNCHANGED <<users, predictionTests, executions>>

TaskIds == 1 .. MaxTasks
WorkerIds == 1 .. MaxWorkers
ExecutionIds == 1 .. MaxExecutions

\* Writes that carry references: to users (live or soft-deleted), tasks, workers.
NextRefs ==
    \/ Tick
    \/ \E name \in UserNames : \E creator \in UserIds \cup {NULL, MaxUsers + 1} :
          InsertUser(name, creator)
    \/ \E id \in UserIds : \E by \in UserIds : SoftDeleteUser(id, by)
    \/ \E owner \in UserIds \cup {NULL, MaxUsers + 1} : InsertTask(owner)
    \/ \E owner \in UserIds \cup {NULL} : \E task \in TaskIds \cup {NULL, MaxTasks + 1} :
          InsertWorker(owner, task)
    \/ \E worker \in WorkerIds \cup {MaxWorkers + 1} :
       \E task \in TaskIds \cup {MaxTasks + 1} : \E score \in Scores :
          Execute(1, worker, task, score)
    \/ SubmitTaskResult(1)

SpecRefs == Init /\ [][NextRefs]_vars

\* Workers executing tasks and reporting the results, each report delivered
\* at least once.
NextReport ==
    \/ Tick
    \/ InsertTask(NULL)
    \/ \E task \in TaskIds \cup {NULL} : InsertWorker(NULL, task)
    \/ \E e \in ExecutionIds : \E worker \in WorkerIds : \E task \in TaskIds :
       \E score \in Scores :
          Execute(e, worker, task, score)
    \/ \E e \in ExecutionIds : SubmitTaskResult(e)

SpecReport == Init /\ [][NextReport]_vars

(***************************************************************************)
(* BaseTest and PredictionTest: the choice columns.  A ChoiceType column   *)
(* holds None or one of the codes of the list it was declared with.        *)
(***************************************************************************)
None == "None"

TEST_TYPES == {"mock", "live"}

PREDICTION_TYPES == {}

ChoiceUnchecked(choices, value) == TRUE

ChoiceAccepts(choices, value) == value = None \/ value \in choices

PredictionTestInsert(t1, t2, t3, testType, predictionType) ==
    TimeBaseInsert(t1, t2) @@ AuditInsert(t3, NULL)
    @@ [test_type |-> testType, prediction_type |-> predictionType]

TestsRest == <<users, tasks, workers, taskResults, executions, deliveries, rowExecution>>

InsertPredictionTest(testType, predictionType) ==
    /\ Cardinality(DOMAIN predictionTests) < MaxTests
    /\ LET id == NextId(predictionTests)
           cs == {<<"test_type", testType>>, <<"prediction_type", predictionType>>} IN
       IF ~(/\ ChoiceAccepts(TEST_TYPES, testType)
            /\ ChoiceAccepts(PREDICTION_TYPES, predictionType))
       THEN /\ lastOp' = OpChoices("insert", "PredictionTest", NULL, "ChoiceError", cs)
            /\ UNCHANGED <<clock, predictionTests>>
       ELSE \E t2 \in LaterReads(clock) : \E t3 \in LaterReads(t2) :
              /\ predictionTests' =
                    (id :> PredictionTestInsert(clock, t2, t3, testType, predictionType))
                    @@ predictionTests
              /\ clock' = t3
              /\ lastOp' = OpChoices("insert", "PredictionTest", id, "ok", cs)
    /\ UNCHANGED TestsRest

UpdateTestType(id, testType) ==
    /\ id \in DOMAIN predictionTests
    /\ predictionTests[id].test_type # testType
    /\ LET cs == {<<"test_type", testType>>} IN
       IF ~ChoiceAccepts(TEST_TYPES, testType)
       THEN /\ lastOp' = OpChoices("update", "PredictionTest", id, "ChoiceError", cs)
            /\ UNCHANGED predictionTests
       ELSE /\ predictionTests' = [predictionTests EXCEPT ![id] =
                                     OnUpdate([@ EXCEPT !.test_type = testType], clock)]
            /\ lastOp' = OpChoices("update", "PredictionTest", id, "ok", cs)
    /\ UNCHANGED clock
    /\ UNCHANGED TestsRest

UpdatePredictionType(id, predictionType) ==
    /\ id \in DOMAIN predictionTests
    /\ predictionTests[id].prediction_type # predictionType
    /\ LET cs == {<<"prediction_type", predictionType>>} IN
       IF ~ChoiceAccepts(PREDICTION_TYPES, predictionType)
       THEN /\ lastOp' = OpChoices("update", "PredictionTest", id, "ChoiceError", cs)
            /\ UNCHANGED predictionTests
       ELSE /\ predictionTests' = [predictionTests EXCEPT ![id] =
                                     OnUpdate([@ EXCEPT !.prediction_type = predictionType],
                                              clock)]
            /\ lastOp' = OpChoices("update", "PredictionTest", id, "ok", cs)
    /\ UNCHANGED clock
    /\ UNCHANGED TestsRest

TestIds == 1 .. MaxTests
TestTypeInputs == {None, "mock", "live", "paper"}
PredictionTypeInputs == {None, "regression"}

NextEnum ==
    \/ Tick
    \/ \E testType \in TestTypeInputs : \E predictionType \in PredictionTypeInputs :
          InsertPredictionTest(testType, predictionType)
    \/ \E id \in TestIds : \E testType \in TestTypeInputs : UpdateTestType(id, testType)
    \/ \E id \in TestIds : \E predictionType \in PredictionTypeInputs :
          UpdatePredictionType(id, predictionType)

SpecEnum == Init /\ [][NextEnum]_vars

(***************************************************************************)
(* Properties of the timestamp and soft-delete columns.                    *)
(***************************************************************************)
DeletionFields(row) ==
    <<row.deleted, row.date_deleted, row.deleted_user_id>>

AuditRows ==
    {users[id] : id \in DOMAIN users} \cup {predictionTests[id] : id \in DOMAIN predictionTests}

\* C1: in every state, every row of an AuditDeletable entity has deleted true
\* iff date_deleted and deleted_user_id are both non-null, and never has only
\* some of the three set.
C1_NoMixedDeletionState ==
    \A row \in AuditRows :
        /\ (row.deleted = SqlTrue) <=> (row.date_deleted # NULL /\ row.deleted_user_id # NULL)
        /\ (row.deleted = SqlTrue) <=> (row.date_deleted # NULL)
        /\ (row.deleted = SqlTrue) <=> (row.deleted_user_id # NULL)

\* C8: right after the insert of an AuditDeletable row with no soft-delete value
\* supplied, date_created and date_updated are stamped and deleted,
\* date_deleted and deleted_user_id are all unset.
C8_InsertLeavesDeletionUnset ==
    (lastOp.op = "insert" /\ lastOp.table = "Users" /\ lastOp.result = "ok") =>
        LET row == users[lastOp.id] IN
        /\ row.date_created # NULL
        /\ row.date_updated # NULL
        /\ row.deleted # SqlTrue
        /\ row.date_deleted = NULL
        /\ row.deleted_user_id = NULL

\* C2: a successful softDelete by a user sets deleted, deleted_user_id (that
\* user) and date_deleted (the time of the call); a softDelete of a row that is
\* already soft-deleted ends in a state conflict and leaves the row as it was.
C2_SecondSoftDeleteRejected ==
    [][/\ (/\ lastOp' # lastOp
           /\ lastOp'.op = "softDelete"
           /\ lastOp'.result = "ok")
          => (/\ users[lastOp'.id].deleted # SqlTrue
              /\ users'[lastOp'.id].deleted = SqlTrue
              /\ users'[lastOp'.id].deleted_user_id = lastOp'.arg
              /\ users'[lastOp'.id].date_deleted = clock')
       /\ (/\ lastOp' # lastOp
           /\ lastOp'.op = "softDelete"
           /\ users[lastOp'.id].deleted = SqlTrue)
          => (lastOp'.result = "StateConflict" /\ users' = users)]_vars

C2_Witness ==
    /\ lastOp.op = "softDelete"
    /\ lastOp.result = "StateConflict"
    /\ users[lastOp.id].deleted = SqlTrue
    /\ users[lastOp.id].date_deleted < clock

\* C3: every row that carries date_created and date_updated has
\* date_updated >= date_created, at insert and after every later write.
TimestampedRows ==
    {users[id] : id \in DOMAIN users} \cup {tasks[id] : id \in DOMAIN tasks}
    \cup {workers[id] : id \in DOMAIN workers}
    \cup {taskResults[id] : id \in DOMAIN taskResults}
    \cup {predictionTests[id] : id \in DOMAIN predictionTests}

C9_FrozenAfterSoftDelete ==
    [][\A id \in DOMAIN users :
          users[id].deleted = SqlTrue => users'[id].username = users[id].username]_vars

\* C9 (amended): a softDelete and a business-field write on the same row are
\* applied one after the other, each as one write: the business-field write
\* changes no soft-delete field and is stamped in date_updated, the softDelete
\* changes no business field; a business-field write that comes after the
\* soft-delete still takes effect.
C9_WritesSerialized ==
    [][\A id \in DOMAIN users :
          /\ (users'[id].username # users[id].username =>
                /\ DeletionFields(users'[id]) = DeletionFields(users[id])
                /\ users'[id].date_updated = clock')
          /\ (DeletionFields(users'[id]) # DeletionFields(users[id]) =>
                users'[id].username = users[id].username)]_vars

C9_Witness ==
    /\ lastOp.op = "update"
    /\ lastOp.table = "Users"
    /\ users[lastOp.id].deleted = SqlTrue
    /\ users[lastOp.id].date_updated > users[lastOp.id].date_deleted


(***************************************************************************)
(* Properties of references, choice columns and task results.              *)
(***************************************************************************)
Tables == <<users, tasks, workers, taskResults, predictionTests>>

TableRows(name) ==
    CASE name = "Users" -> users
      [] name = "Tasks" -> tasks
      [] name = "Workers" -> workers
      [] name = "TaskResults" -> taskResults
      [] name = "PredictionTest" -> predictionTests

\* The row a write has stored, in the state after the write.
StoredRow(name, id) ==
    CASE name = "Users" -> users'[id]
      [] name = "Tasks" -> tasks'[id]
      [] name = "Workers" -> workers'[id]
      [] name = "TaskResults" -> taskResults'[id]
      [] name = "PredictionTest" -> predictionTests'[id]

\* C4: a write whose non-null reference names a row that does not exist is
\* rejected and persists nothing; a write whose references all name existing
\* rows (soft-deleted or not) is accepted and stores the references as given.
\* This covers user_id of an Ownable row and worker_id, task_id of TaskResults.
C4_DanglingRejectedExistingAccepted ==
    [][(lastOp' # lastOp /\ lastOp'.op = "insert" /\ lastOp'.refs # {}) =>
         LET dangling == \E ref \in lastOp'.refs :
                            ref[3] # NULL /\ ref[3] \notin DOMAIN TableRows(ref[2])
         IN /\ dangling => (lastOp'.result = "IntegrityError" /\ Tables' = Tables)
            /\ ~dangling =>
                 /\ lastOp'.result = "ok"
                 /\ \A ref \in lastOp'.refs :
                       StoredRow(lastOp'.table, lastOp'.id)[ref[1]] = ref[3]]_vars

RowsOf(e) == {r \in DOMAIN rowExecution : rowExecution[r] = e}

Reported(e) == RowsOf(e) # {}

ExistingResultsNeverChange ==
    [][\A r \in DOMAIN taskResults : taskResults'[r] = taskResults[r]]_vars

====
